---- MODULE Spec2Model ----
(***************************************************************************)
(* Model of package prom (fixed_precision.go): FixedPrecisionGauge, an     *)
(* int64 cell holding a decimal value scaled by 10^precision and mutated   *)
(* with sync/atomic, and FixedPrecisionCounter, which embeds it and        *)
(* panics on negative Add.                                                 *)
(*                                                                         *)
(* Go's int64, uint and float64 are wider than the 32-bit integers of TLC, *)
(* so they are built here from multi-limb naturals:                        *)
(*   N*   naturals, little-endian sequences of limbs in 0..Base-1          *)
(*   Z*   signed integers [neg, mag]                                       *)
(*   I64* int64: a Z in -2^63 .. 2^63-1, arithmetic wraps modulo 2^64      *)
(*   F64* float64: [neg, man, exp] = (-1)^neg * man * 2^exp, man odd and   *)
(*        below 2^53 (or zero); every operation rounds to nearest, ties    *)
(*        to even, as IEEE 754 binary64 does.  Infinities, NaN, the sign   *)
(*        of zero and subnormals are outside the values used here.         *)
(***************************************************************************)
EXTENDS Integers, Sequences, FiniteSets, TLC

\* ------------------------------------------------------------------------
\* Naturals of any size
\* ------------------------------------------------------------------------

Base == 2^15

\* The operators below avoid deep recursion: carries and borrows are found
\* by looking back along the limbs rather than by passing them along.

Limb(a, i) == IF i >= 1 /\ i <= Len(a) THEN a[i] ELSE 0

\* a without its high zero limbs
NNorm(a) ==
    LET nz == {i \in 1..Len(a) : a[i] # 0}
    IN  IF nz = {} THEN <<>>
        ELSE SubSeq(a, 1, CHOOSE i \in nz : \A j \in nz : j <= i)

\* for n in 0 .. 2^31 - 1
NFromInt(n) == NNorm(<<n % Base, (n \div Base) % Base, n \div (Base * Base)>>)

NOne == <<1>>

\* -1, 0 or 1 as a < b, a = b, a > b
NCmp(a, b) ==
    IF Len(a) < Len(b) THEN -1
    ELSE IF Len(a) > Len(b) THEN 1
    ELSE LET d == {i \in 1..Len(a) : a[i] # b[i]}
         IN  IF d = {} THEN 0
             ELSE LET m == CHOOSE i \in d : \A j \in d : j <= i
                  IN  IF a[m] < b[m] THEN -1 ELSE 1

NLess(a, b) == NCmp(a, b) < 0
NLeq(a, b) == NCmp(a, b) <= 0

\* the natural whose limbs, before carrying, are s[1], s[2], ..., each at
\* most 2 * Base - 2: limb i receives a carry when a lower limb overflows
\* and every limb between is Base - 1
NCarry(s) ==
    LET in(i) == \E j \in 1..(i - 1) :
                     /\ s[j] >= Base
                     /\ \A m \in (j + 1)..(i - 1) : s[m] = Base - 1
    IN  NNorm([i \in 1..(Len(s) + 1) |->
                 (Limb(s, i) + IF in(i) THEN 1 ELSE 0) % Base])

NAdd(a, b) ==
    IF a = <<>> THEN b
    ELSE IF b = <<>> THEN a
    ELSE LET n == IF Len(a) > Len(b) THEN Len(a) ELSE Len(b)
         IN  NCarry([i \in 1..n |-> Limb(a, i) + Limb(b, i)])

\* a - b for a >= b: limb i lends when a lower limb falls below zero and
\* every limb between is zero
NSub(a, b) ==
    LET d(i) == a[i] - Limb(b, i)
        out(i) == \E j \in 1..(i - 1) :
                      /\ d(j) < 0
                      /\ \A m \in (j + 1)..(i - 1) : d(m) = 0
    IN  IF a = b THEN <<>>
        ELSE NNorm([i \in 1..Len(a) |->
                      (d(i) + Base - IF out(i) THEN 1 ELSE 0) % Base])

\* a * k for 0 <= k < Base
NMulSmall(a, k) ==
    IF a = <<>> \/ k = 0 THEN <<>>
    ELSE NCarry([i \in 1..(Len(a) + 1) |->
                   ((Limb(a, i) * k) % Base)
                   + ((Limb(a, i - 1) * k) \div Base)])

NShiftLimb(a) == IF a = <<>> THEN a ELSE <<0>> \o a

\* a * b, one limb of b at a time
RECURSIVE NMulBy(_, _)
NMulBy(a, b) ==
    IF b = <<>> THEN <<>>
    ELSE NAdd(NMulSmall(a, Head(b)), NShiftLimb(NMulBy(a, Tail(b))))

NMul(a, b) == IF Len(a) < Len(b) THEN NMulBy(b, a) ELSE NMulBy(a, b)

\* <<a \div k, a % k>> for 0 < k <= Base, from the highest limb down
RECURSIVE NDivSmall(_, _)
NDivSmall(a, k) ==
    IF a = <<>> THEN <<<<>>, 0>>
    ELSE LET t   == NDivSmall(Tail(a), k)
             cur == t[2] * Base + Head(a)
         IN  IF t[1] = <<>> /\ cur < k THEN <<<<>>, cur>>
             ELSE <<<<cur \div k>> \o t[1], cur % k>>

\* a * 2^n
NShl(a, n) ==
    LET q == n \div 15
        s == n % 15
    IN  IF a = <<>> \/ n = 0 THEN a
        ELSE NNorm([i \in 1..(Len(a) + q + 1) |->
                      ((Limb(a, i - q) * 2^s) % Base)
                      + (Limb(a, i - q - 1) \div 2^(15 - s))])

\* a \div 2^n
NShr(a, n) ==
    LET q == n \div 15
        s == n % 15
    IN  IF a = <<>> \/ n = 0 THEN a
        ELSE IF q >= Len(a) THEN <<>>
        ELSE NNorm([i \in 1..(Len(a) - q) |->
                      (Limb(a, i + q) \div 2^s)
                      + ((Limb(a, i + q + 1) % 2^s) * 2^(15 - s))])

NPow2(n) == NShl(NOne, n)

\* number of binary digits of a limb k
SmallBitLen(k) == CHOOSE n \in 0..15 : k < 2^n /\ (n = 0 \/ k >= 2^(n - 1))

\* number of binary digits of a (0 for zero)
NBitLen(a) ==
    IF a = <<>> THEN 0 ELSE 15 * (Len(a) - 1) + SmallBitLen(a[Len(a)])

NIsOdd(a) == a # <<>> /\ a[1] % 2 = 1

\* number of zero binary digits below the lowest one (0 for zero)
NTrailingZeros(a) ==
    IF a = <<>> THEN 0
    ELSE LET i == CHOOSE n \in 1..Len(a) :
                      a[n] # 0 /\ \A j \in 1..(n - 1) : a[j] = 0
             t == CHOOSE n \in 0..14 : a[i] % 2^(n + 1) = 2^n
         IN  15 * (i - 1) + t

\* 10^n, four decimal digits at a time
RECURSIVE NPow10(_)
NPow10(n) ==
    IF n < 4 THEN NFromInt(10^n) ELSE NMulSmall(NPow10(n - 4), 10000)

\* <<a \div 10^n, a % 10^n # 0>>, four decimal digits at a time
RECURSIVE NDivPow10(_, _)
NDivPow10(a, n) ==
    IF n = 0 THEN <<a, FALSE>>
    ELSE LET k == IF n < 4 THEN n ELSE 4
             t == NDivSmall(a, 10^k)
             u == NDivPow10(t[1], n - k)
         IN  IF t[1] = <<>> THEN <<<<>>, t[2] # 0>>
             ELSE <<u[1], u[2] \/ t[2] # 0>>

\* the natural written with the decimal digits ds, most significant first
RECURSIVE NFromDigits(_)
NFromDigits(ds) ==
    IF Len(ds) <= 4
    THEN NFromInt(  1000 * Limb(ds, Len(ds) - 3) + 100 * Limb(ds, Len(ds) - 2)
                  + 10 * Limb(ds, Len(ds) - 1) + Limb(ds, Len(ds)))
    ELSE LET n == Len(ds)
         IN  NAdd(NMulSmall(NFromDigits(SubSeq(ds, 1, n - 4)), 10000),
                  NFromInt(  1000 * ds[n - 3] + 100 * ds[n - 2]
                           + 10 * ds[n - 1] + ds[n]))

\* ------------------------------------------------------------------------
\* Signed integers
\* ------------------------------------------------------------------------

ZMk(neg, mag) == [neg |-> neg /\ mag # <<>>, mag |-> mag]
ZFromInt(n) == IF n < 0 THEN ZMk(TRUE, NFromInt(0 - n)) ELSE ZMk(FALSE, NFromInt(n))
ZZero == ZMk(FALSE, <<>>)
ZNeg(a) == ZMk(~a.neg, a.mag)

ZAdd(a, b) ==
    IF a.neg = b.neg THEN ZMk(a.neg, NAdd(a.mag, b.mag))
    ELSE IF NLess(a.mag, b.mag) THEN ZMk(b.neg, NSub(b.mag, a.mag))
    ELSE ZMk(a.neg, NSub(a.mag, b.mag))

ZSub(a, b) == ZAdd(a, ZNeg(b))
ZMul(a, b) == ZMk(a.neg # b.neg, NMul(a.mag, b.mag))

ZLess(a, b) ==
    IF a.neg /\ ~b.neg THEN TRUE
    ELSE IF ~a.neg /\ b.neg THEN FALSE
    ELSE IF a.neg THEN NLess(b.mag, a.mag)
    ELSE NLess(a.mag, b.mag)

ZLeq(a, b) == ~ZLess(b, a)

\* ------------------------------------------------------------------------
\* int64 and uint (64 bits wide): two's complement, overflow wraps
\* ------------------------------------------------------------------------

Two63 == NPow2(63)
Two64 == NPow2(64)

\* a modulo 2^64
NMod64(a) == NSub(a, NShl(NShr(a, 64), 64))

\* the uint holding the low 64 bits of z
U64Wrap(z) ==
    LET m == NMod64(z.mag)
    IN  IF z.neg /\ m # <<>> THEN NSub(Two64, m) ELSE m

\* an int64 that stopped at its bounds instead of wrapping
I64WrapSaturating(z) ==
    IF z.neg
    THEN IF NLeq(z.mag, NPow2(63)) THEN z ELSE ZMk(TRUE, NPow2(63))
    ELSE IF NLess(z.mag, NPow2(63)) THEN z
         ELSE ZMk(FALSE, NSub(NPow2(63), NOne))

\* the int64 holding the low 64 bits of z
I64Wrap(z) ==
    LET u == U64Wrap(z)
    IN  IF NLess(u, Two63) THEN ZMk(FALSE, u) ELSE ZMk(TRUE, NSub(Two64, u))

I64Add(a, b) == I64Wrap(ZAdd(a, b))
I64Mul(a, b) == I64Wrap(ZMul(a, b))

\* int64(u) for a uint u
I64FromU64(u) == I64Wrap(ZMk(FALSE, u))

InInt64Range(z) == IF z.neg THEN NLeq(z.mag, Two63) ELSE NLess(z.mag, Two63)

\* ------------------------------------------------------------------------
\* float64
\* ------------------------------------------------------------------------

MantBits == 53

F64Zero == [neg |-> FALSE, man |-> <<>>, exp |-> 0]

\* the float64 (-1)^neg * m * 2^e for m below 2^53, in its one representation
F64Mk(neg, m, e) ==
    IF m = <<>> THEN F64Zero
    ELSE LET tz == NTrailingZeros(m)
         IN  [neg |-> neg, man |-> NShr(m, tz), exp |-> e + tz]

\* (-1)^neg * (m + s) * 2^e rounded to nearest, ties to even, where s is 0
\* when sticky is FALSE and somewhere strictly between 0 and 1 when it is TRUE
F64Round(neg, m, e, sticky) ==
    LET sh == NBitLen(m) - MantBits
    IN  IF sh <= 0 THEN F64Mk(neg, m, e)
        ELSE LET q    == NShr(m, sh)
                 rem  == NSub(m, NShl(q, sh))
                 c    == NCmp(rem, NPow2(sh - 1))
                 up   == c > 0 \/ (c = 0 /\ (sticky \/ NIsOdd(q)))
             IN  F64Mk(neg, IF up THEN NAdd(q, NOne) ELSE q, e + sh)

\* (-1)^neg * (a / 10^n) * 2^e rounded once
F64FromRatio(neg, a, n, e) ==
    LET need == MantBits + 2 + NBitLen(NPow10(n)) - NBitLen(a)
        k    == IF need > 0 THEN need ELSE 0
        qs   == NDivPow10(NShl(a, k), n)
    IN  IF a = <<>> THEN F64Zero ELSE F64Round(neg, qs[1], e - k, qs[2])

F64Mul(x, y) == F64Round(x.neg # y.neg, NMul(x.man, y.man), x.exp + y.exp, FALSE)

\* x / 10^n, where 10^n is a float64 exactly (n <= 22)
F64QuoPow10(x, n) == F64FromRatio(x.neg, x.man, n, x.exp)

\* float64(z) for an int64 or uint z
F64FromZ(z) == F64Round(z.neg, z.mag, 0, FALSE)

F64FromInt(n) == F64FromZ(ZFromInt(n))

\* x < 0
F64Negative(x) == x.neg /\ x.man # <<>>

\* x truncated toward zero, as an integer of any size
F64Trunc(x) ==
    IF x.exp >= 0 THEN ZMk(x.neg, NShl(x.man, x.exp))
    ELSE ZMk(x.neg, NShr(x.man, 0 - x.exp))

\* the float64 nearest the decimal constant (-1)^neg * ds * 10^(-scale), as
\* the compiler converts a constant to float64
F64Lit(neg, ds, scale) == F64FromRatio(neg, NFromDigits(ds), scale, 0)

F64Neg(x) == [neg |-> ~x.neg /\ x.man # <<>>, man |-> x.man, exp |-> x.exp]

\* ------------------------------------------------------------------------
\* Exact values (no rounding), for the true value a cell should stand for:
\* (-1)^neg * man * 2^exp with man of any size
\* ------------------------------------------------------------------------

QMk(neg, m, e) ==
    IF m = <<>> THEN F64Zero
    ELSE LET tz == NTrailingZeros(m)
         IN  [neg |-> neg, man |-> NShr(m, tz), exp |-> e + tz]

QFromZ(z) == QMk(z.neg, z.mag, 0)

QAdd(x, y) ==
    LET e == IF x.exp < y.exp THEN x.exp ELSE y.exp
        s == ZAdd(ZMk(x.neg, NShl(x.man, x.exp - e)),
                  ZMk(y.neg, NShl(y.man, y.exp - e)))
    IN  QMk(s.neg, s.mag, e)

QSub(x, y) == QAdd(x, F64Neg(y))

\* x * n for a natural n
QMulN(x, n) == QMk(x.neg, NMul(x.man, n), x.exp)

QLess(x, y) == QSub(x, y).neg
QLeq(x, y) == ~QLess(y, x)

\* |x| < 1
QAbsBelowOne(x) == NBitLen(x.man) + x.exp <= 0

\* ------------------------------------------------------------------------
\* The program
\* ------------------------------------------------------------------------

\* precisions the cells are built with: 0 .. MaxPrec
MaxPrec == 9

\* bounds of the model
MaxCalls == 2
IncThreads == 3
IncsPerThread == 4
Readers == 2
Callers == 2

\* math.Pow10(n), exact for the n used here
Pow10(n) == F64FromZ(ZMk(FALSE, NPow10(n)))

\* a constructor that took a power of two: uint(math.Pow(2, float64(prec)))
NewPrecBinary(p) == NPow2(p)

\* the prec field set by the constructors: uint(math.Pow10(int(prec)))
NewPrec(p) == U64Wrap(F64Trunc(Pow10(p)))

\* a conversion that rounded toward minus infinity instead of toward zero
F64ToInt64Floor(x) ==
    IF x.neg /\ x.man # <<>> /\ x.exp < 0
    THEN ZSub(F64Trunc(x), ZFromInt(1))
    ELSE F64Trunc(x)

\* int64(x) for a float64 x whose integer part is inside int64 (Go leaves the
\* result for other x to the implementation; no such x is an input here)
F64ToInt64(x) == F64Trunc(x)

\* float64(u) for the uint u
F64FromU64(u) == F64FromZ(ZMk(FALSE, u))

\* a Set that scaled before converting: int64(val * float64(fpg.prec))
StoreOfSetScalingFirst(v, scale) == F64ToInt64(F64Mul(v, F64FromU64(scale)))

\* Set: the value stored, int64(val) * int64(fpg.prec)
StoreOfSet(v, scale) == I64Mul(F64ToInt64(v), I64FromU64(scale))

\* an add that stored its term: atomic.StoreInt64 in place of atomic.AddInt64
addStoring(cur, delta, scale) == I64Mul(delta, I64FromU64(scale))

\* an add that left the scale out: atomic.AddInt64(&fpg.val, delta)
addUnscaled(cur, delta, scale) == I64Add(cur, delta)

\* an add that applied the scale twice
addScaledTwice(cur, delta, scale) ==
    I64Add(cur, I64Mul(I64Mul(delta, I64FromU64(scale)), I64FromU64(scale)))

\* add: atomic.AddInt64(&fpg.val, delta * int64(fpg.prec)) on a cell holding cur
add(cur, delta, scale) == I64Add(cur, I64Mul(delta, I64FromU64(scale)))

\* an Add that converted before scaling, as Set does:
\* int64(delta) * int64(fpg.prec)
AddFloatTruncatingFirst(cur, delta, scale) ==
    I64Add(cur, I64Mul(F64ToInt64(delta), I64FromU64(scale)))

\* Add: atomic.AddInt64(&fpg.val, int64(delta * float64(fpg.prec)))
AddFloat(cur, delta, scale) ==
    I64Add(cur, F64ToInt64(F64Mul(delta, F64FromU64(scale))))

\* a Sub that kept the sign: fpg.Add(val)
SubFloatSameSign(cur, v, scale) == AddFloat(cur, v, scale)

\* Sub: fpg.Add(val * -1)
SubFloat(cur, v, scale) == AddFloat(cur, F64Mul(v, F64FromInt(-1)), scale)

\* the precision a prec field was built from: prec is a power of ten, set
\* once by the constructor
Log10(scale) == CHOOSE n \in 0..19 : NPow10(n) = scale

\* a Value that left the division out: float64(atomic.LoadInt64(&fpg.val))
ValueOfUnscaled(cur, scale) == F64FromZ(cur)

\* Value and Write: float64(atomic.LoadInt64(&fpg.val)) / float64(fpg.prec);
\* float64(fpg.prec) is the power of ten itself, exactly
ValueOf(cur, scale) == F64QuoPow10(F64FromZ(cur), Log10(scale))

\* a counter Add that checked the sign after adding
CounterAddOutcomeLate(cur, v, scale) ==
    [panicked |-> F64Negative(v), val |-> AddFloat(cur, v, scale)]

\* a counter Add without the check
CounterAddOutcomeUnguarded(cur, v, scale) ==
    [panicked |-> FALSE, val |-> AddFloat(cur, v, scale)]

\* FixedPrecisionCounter.Add: panic before anything is written when v < 0,
\* else the embedded gauge's Add
CounterAddOutcome(cur, v, scale) ==
    IF F64Negative(v)
    THEN [panicked |-> TRUE, val |-> cur]
    ELSE [panicked |-> FALSE, val |-> AddFloat(cur, v, scale)]

\* float64 arguments the callers pass, as the constants of the tests
One == F64Lit(FALSE, <<1>>, 0)
MinusOne == F64Lit(TRUE, <<1>>, 0)
Half == F64Lit(FALSE, <<5>>, 1)
FortyTwoPoint3 == F64Lit(FALSE, <<4, 2, 3>>, 1)
AlmostOne == F64Lit(FALSE, <<9,9,9,9,9,9,9,9,9,9,9,9,9,9,9,9,9,9,9>>, 19)
AlmostThree == F64Lit(FALSE, <<2,9,9,9,9,9,9,9,9,9,9,9,9,9,9,9,9,9,9,7>>, 19)
Point29 == F64Lit(FALSE, <<2, 9>>, 2)
MinusTwoPoint5 == F64Lit(TRUE, <<2, 5>>, 1)

Inputs == {One, MinusOne, Half, FortyTwoPoint3, AlmostOne, AlmostThree,
           Point29, MinusTwoPoint5}

\* results of time.Now().Unix()
UnixTimes == {ZMk(FALSE, NFromDigits(<<1,7,9,3,6,2,3,4,5,6>>))}

Kinds == {"gauge", "counter"}

VARIABLES
    kind,    \* which type the cell is: FixedPrecisionGauge or FixedPrecisionCounter
    prec,    \* the prec field: 10^precision
    val,     \* the val field
    last,    \* the last call: its name, argument, val before it, outcome
    called,  \* names of the methods called so far
    exact,   \* the exact value the calls so far add up to
    nops,    \* number of calls so far
    left,    \* per goroutine of a workload, what it still has to call: the
             \* number of Inc calls, or the one call it makes
    pc,      \* per goroutine, where it is in its call
    lo,      \* per reader, the values Value had returned when it was called
             \* (for the one reader of a gauge: the callers that had started)
    ret,     \* per reader, the value its load computed
    seen     \* the values Value has returned so far

vars == <<kind, prec, val, last, called, exact, nops, left, pc, lo, ret, seen>>

cell == <<kind, prec>>
readers == <<pc, lo, ret, seen>>

NoCall ==
    [op |-> "New", arg |-> F64Zero, before |-> ZZero, panicked |-> FALSE,
     result |-> F64Zero]

\* NewFixedPrecisionGauge / NewFixedPrecisionCounter with precision p
New(k, p) ==
    /\ kind = k
    /\ prec = NewPrec(p)
    /\ val = ZZero
    /\ last = NoCall
    /\ called = {}
    /\ exact = F64Zero
    /\ nops = 0

\* what a call leaves in the history
Called(op, arg, panicked, result) ==
    /\ last' = [op |-> op, arg |-> arg, before |-> val, panicked |-> panicked,
                result |-> result]
    /\ called' = called \cup {op}
    /\ nops' = nops + 1

\* ---- one caller, every method of the type --------------------------------

Init ==
    /\ \E k \in Kinds, p \in 0..MaxPrec : New(k, p)
    /\ left = <<>>
    /\ pc = <<>>
    /\ lo = <<>>
    /\ ret = <<>>
    /\ seen = {}

Set(v) ==
    /\ nops < MaxCalls
    /\ val' = StoreOfSet(v, prec)
    /\ exact' = v
    /\ Called("Set", v, FALSE, F64Zero)
    /\ UNCHANGED <<cell, left, readers>>

Inc ==
    /\ nops < MaxCalls
    /\ val' = add(val, ZFromInt(1), prec)
    /\ exact' = QAdd(exact, One)
    /\ Called("Inc", F64Zero, FALSE, F64Zero)
    /\ UNCHANGED <<cell, left, readers>>

Dec ==
    /\ nops < MaxCalls
    /\ val' = add(val, ZFromInt(-1), prec)
    /\ exact' = QAdd(exact, MinusOne)
    /\ Called("Dec", F64Zero, FALSE, F64Zero)
    /\ UNCHANGED <<cell, left, readers>>

\* Add of the gauge's method set
Add(delta) ==
    /\ kind = "gauge"
    /\ nops < MaxCalls
    /\ val' = AddFloat(val, delta, prec)
    /\ exact' = QAdd(exact, delta)
    /\ Called("Add", delta, FALSE, F64Zero)
    /\ UNCHANGED <<cell, left, readers>>

Sub(v) ==
    /\ nops < MaxCalls
    /\ val' = SubFloat(val, v, prec)
    /\ exact' = QSub(exact, v)
    /\ Called("Sub", v, FALSE, F64Zero)
    /\ UNCHANGED <<cell, left, readers>>

Write ==
    /\ nops < MaxCalls
    /\ Called("Write", F64Zero, FALSE, ValueOf(val, prec))
    /\ UNCHANGED <<cell, val, exact, left, readers>>

\* a Value that emptied the cell as it read it: atomic.SwapInt64(&fpg.val, 0)
ValueResetting ==
    /\ nops < MaxCalls
    /\ val' = ZZero
    /\ Called("Value", F64Zero, FALSE, ValueOf(val, prec))
    /\ UNCHANGED <<cell, exact, left, readers>>

Value ==
    /\ nops < MaxCalls
    /\ Called("Value", F64Zero, FALSE, ValueOf(val, prec))
    /\ UNCHANGED <<cell, val, exact, left, readers>>

SetToCurrentTime(now) ==
    /\ nops < MaxCalls
    /\ val' = StoreOfSet(F64FromZ(now), prec)
    /\ exact' = QFromZ(now)
    /\ Called("SetToCurrentTime", F64FromZ(now), FALSE, F64Zero)
    /\ UNCHANGED <<cell, left, readers>>

\* Add of the counter's method set, which hides the gauge's
CounterAdd(v) ==
    /\ kind = "counter"
    /\ nops < MaxCalls
    /\ LET out == CounterAddOutcome(val, v, prec)
       IN  /\ val' = out.val
           /\ exact' = IF out.panicked THEN exact ELSE QAdd(exact, v)
           /\ Called("CounterAdd", v, out.panicked, F64Zero)
    /\ UNCHANGED <<cell, left, readers>>

Next ==
    \/ \E v \in Inputs : Set(v)
    \/ Inc
    \/ Dec
    \/ \E v \in Inputs : Add(v)
    \/ \E v \in Inputs : Sub(v)
    \/ Write
    \/ Value
    \/ \E now \in UnixTimes : SetToCurrentTime(now)
    \/ \E v \in Inputs : CounterAdd(v)

Spec == Init /\ [][Next]_vars

\* ---- goroutines calling Inc on one gauge of precision 0 -----------------

InitInc ==
    /\ New("gauge", 0)
    /\ left = [t \in 1..IncThreads |-> IncsPerThread]
    /\ pc = <<>>
    /\ lo = <<>>
    /\ ret = <<>>
    /\ seen = {}

\* one Inc of goroutine t: a single atomic.AddInt64
IncBy(t) ==
    /\ left[t] > 0
    /\ val' = add(val, ZFromInt(1), prec)
    /\ left' = [left EXCEPT ![t] = @ - 1]
    /\ UNCHANGED <<cell, last, called, exact, nops, readers>>

NextInc == \E t \in 1..IncThreads : IncBy(t)

SpecInc == InitInc /\ [][NextInc]_vars

\* ---- one counter: callers of Add and Inc, goroutines calling Value ------

\* precisions of the counters: those of the tests and the highest
CounterPrecs == {0, 3, MaxPrec}

\* arguments the callers of the counter's Add pass
CounterInputs == {Half, FortyTwoPoint3, MinusOne}

InitCounter ==
    /\ \E p \in CounterPrecs : New("counter", p)
    /\ left = <<>>
    /\ pc = [t \in 1..Readers |-> "idle"]
    /\ lo = [t \in 1..Readers |-> {}]
    /\ ret = [t \in 1..Readers |-> F64Zero]
    /\ seen = {}

\* goroutine t calls Value: every value in seen was returned before this call
ValueCall(t) ==
    /\ pc[t] = "idle"
    /\ pc' = [pc EXCEPT ![t] = "called"]
    /\ lo' = [lo EXCEPT ![t] = seen]
    /\ UNCHANGED <<cell, val, last, called, exact, nops, left, ret, seen>>

\* its atomic.LoadInt64, and the division on the value loaded
ValueLoad(t) ==
    /\ pc[t] = "called"
    /\ pc' = [pc EXCEPT ![t] = "loaded"]
    /\ ret' = [ret EXCEPT ![t] = ValueOf(val, prec)]
    /\ UNCHANGED <<cell, val, last, called, exact, nops, left, lo, seen>>

\* its return
ValueReturn(t) ==
    /\ pc[t] = "loaded"
    /\ pc' = [pc EXCEPT ![t] = "done"]
    /\ seen' = seen \cup {ret[t]}
    /\ UNCHANGED <<cell, val, last, called, exact, nops, left, lo, ret>>

NextCounter ==
    \/ \E v \in CounterInputs : CounterAdd(v)
    \/ Inc
    \/ \E t \in 1..Readers : ValueCall(t)
    \/ \E t \in 1..Readers : ValueLoad(t)
    \/ \E t \in 1..Readers : ValueReturn(t)

SpecCounter == InitCounter /\ [][NextCounter]_vars

\* ---- one gauge: goroutines making one call each, one calling Value ------

\* the calls the goroutines make, one each
CallsTried ==
    << [op |-> "Set", arg |-> FortyTwoPoint3],
       [op |-> "Add", arg |-> Half],
       [op |-> "Inc", arg |-> F64Zero],
       [op |-> "Sub", arg |-> FortyTwoPoint3],
       [op |-> "Dec", arg |-> F64Zero] >>

\* val after the atomic store or add of the call c on a cell holding cur
ValAfter(c, cur, scale) ==
    CASE c.op = "Set" -> StoreOfSet(c.arg, scale)
      [] c.op = "Add" -> AddFloat(cur, c.arg, scale)
      [] c.op = "Sub" -> SubFloat(cur, c.arg, scale)
      [] c.op = "Inc" -> add(cur, ZFromInt(1), scale)
      [] c.op = "Dec" -> add(cur, ZFromInt(-1), scale)

\* goroutines are alike, so the calls are dealt to them in the order of
\* CallsTried
InitGauge ==
    /\ New("gauge", 3)
    /\ \E f \in [1..Callers -> 1..Len(CallsTried)] :
          /\ \A t \in 1..(Callers - 1) : f[t] <= f[t + 1]
          /\ left = [t \in 1..Callers |-> CallsTried[f[t]]]
    /\ pc = [t \in 1..Callers |-> "idle"]
    /\ lo = {}
    /\ ret = <<>>
    /\ seen = {}

\* goroutine t enters its call
Call(t) ==
    /\ pc[t] = "idle"
    /\ pc' = [pc EXCEPT ![t] = "called"]
    /\ UNCHANGED <<cell, val, last, called, exact, nops, left, lo, ret, seen>>

\* what a goroutine inside its call waits for before its atomic instruction:
\* nothing. The methods take no lock and have no loop, so the instruction is
\* the next thing the goroutine does
CanEffectWaiting(t) ==
    /\ pc[t] = "called"
    /\ \A u \in 1..Callers : u # t => pc[u] # "called"

CanEffect(t) == pc[t] = "called"

\* its atomic.StoreInt64 or atomic.AddInt64, and its return
Effect(t) ==
    /\ CanEffect(t)
    /\ val' = ValAfter(left[t], val, prec)
    /\ pc' = [pc EXCEPT ![t] = "done"]
    /\ UNCHANGED <<cell, last, called, exact, nops, left, lo, ret, seen>>

\* the one Value call of another goroutine: its atomic.LoadInt64 and the
\* division, with the callers that had started by then
Observe ==
    /\ ret = <<>>
    /\ ret' = <<ValueOf(val, prec)>>
    /\ lo' = {t \in 1..Callers : pc[t] # "idle"}
    /\ UNCHANGED <<cell, val, last, called, exact, nops, left, pc, seen>>

NextGauge ==
    \/ \E t \in 1..Callers : Call(t)
    \/ \E t \in 1..Callers : Effect(t)
    \/ Observe

SpecGauge == InitGauge /\ [][NextGauge]_vars

\* The scheduler runs every goroutine that is inside a call: weak fairness of
\* each Effect(t). Effect(t) always changes pc and its updates are defined for
\* every val, so ENABLED <<Effect(t)>>_vars is CanEffect(t), and
\* WF_vars(Effect(t)) is written out with it as
\* []<>~ENABLED <<A>>_vars \/ []<><<A>>_vars. Nothing makes a goroutine start
\* a call, so Call(t) has no fairness.
FairSpecGauge ==
    /\ SpecGauge
    /\ \A t \in 1..Callers :
          []<>(~CanEffect(t)) \/ []<><<Effect(t)>>_vars

\* ---- one gauge: goroutines that read Value and call Inc if it is below 1 -

InitCheckThenInc ==
    /\ \E p \in 0..MaxPrec : New("gauge", p)
    /\ left = <<>>
    /\ pc = [t \in 1..Callers |-> "idle"]
    /\ lo = <<>>
    /\ ret = [t \in 1..Callers |-> F64Zero]
    /\ seen = {}

\* goroutine t calls Value and compares what it returned with 1
ReadAndCheck(t) ==
    /\ pc[t] = "idle"
    /\ ret' = [ret EXCEPT ![t] = ValueOf(val, prec)]
    /\ pc' = [pc EXCEPT ![t] =
                 IF QLess(ValueOf(val, prec), One) THEN "passed" ELSE "done"]
    /\ UNCHANGED <<cell, val, last, called, exact, nops, left, lo, seen>>

\* its Inc, the comparison having passed
IncAfterCheck(t) ==
    /\ pc[t] = "passed"
    /\ val' = add(val, ZFromInt(1), prec)
    /\ pc' = [pc EXCEPT ![t] = "done"]
    /\ UNCHANGED <<cell, last, called, exact, nops, left, lo, ret, seen>>

NextCheckThenInc ==
    \/ \E t \in 1..Callers : ReadAndCheck(t)
    \/ \E t \in 1..Callers : IncAfterCheck(t)

SpecCheckThenInc == InitCheckThenInc /\ [][NextCheckThenInc]_vars

\* ---- one caller of a gauge, values at and beyond the bounds of int64 ----

\* precisions up to the first at which the Unix time no longer fits
WidePrecs == 0..(MaxPrec + 1)

\* 1e10: at precision 9 its scaled value is beyond int64
TenBillion == F64Lit(FALSE, <<1, 0, 0, 0, 0, 0, 0, 0, 0, 0, 0>>, 0)

\* results of time.Now().Unix(), up to the last second t with t * 10^9
\* inside int64
WideTimes == UnixTimes \cup {ZMk(FALSE, NFromDigits(<<9,2,2,3,3,7,2,0,3,6>>))}

InitWide ==
    /\ \E p \in WidePrecs : New("gauge", p)
    /\ left = <<>>
    /\ pc = <<>>
    /\ lo = <<>>
    /\ ret = <<>>
    /\ seen = {}

NextWide ==
    \/ \E v \in {Half, TenBillion} : Set(v)
    \/ Inc
    \/ Dec
    \/ \E v \in {FortyTwoPoint3} : Add(v)
    \/ \E now \in WideTimes : SetToCurrentTime(now)
    \/ Value

SpecWide == InitWide /\ [][NextWide]_vars

\* ------------------------------------------------------------------------
\* Properties
\* ------------------------------------------------------------------------

\* |x|
QAbs(x) == [neg |-> FALSE, man |-> x.man, exp |-> x.exp]

\* the integer n is x cut off toward zero: n has the sign of x unless it is
\* zero, and |n| <= |x| < |n| + 1
IsTruncOf(n, x) ==
    /\ n.mag # <<>> => n.neg = x.neg
    /\ QLeq(QAbs(QFromZ(n)), QAbs(x))
    /\ QLess(QAbs(x), QAdd(QAbs(QFromZ(n)), QFromZ(ZFromInt(1))))

Scale3 == NewPrec(3)
Scale9 == NewPrec(MaxPrec)
FortyThreePoint3 == F64Lit(FALSE, <<4, 3, 3>>, 1)
MinusFortyThreePoint3 == F64Lit(TRUE, <<4, 3, 3>>, 1)

\* C1: when IncThreads goroutines have each called Inc IncsPerThread times
\* on one gauge of precision 0, in whatever order their atomic adds took
\* effect, Value() is IncThreads * IncsPerThread.
C1_NoLostUpdates ==
    (\A t \in 1..IncThreads : left[t] = 0)
        => ValueOf(val, prec) = F64FromInt(IncThreads * IncsPerThread)

C1_AllDone ==
    /\ \A t \in 1..IncThreads : left[t] = 0
    /\ val = ZFromInt(IncThreads * IncsPerThread)

\* C2: a counter's Add with a negative argument panics and leaves val, and
\* so Value(), as it was before the call.
C2_NegativeAddRejected ==
    (last.op = "CounterAdd" /\ F64Negative(last.arg))
        => /\ last.panicked
           /\ val = last.before
           /\ ValueOf(val, prec) = ValueOf(last.before, prec)

C2_RejectedAfterOne ==
    /\ last.op = "CounterAdd"
    /\ last.arg = MinusOne
    /\ last.panicked
    /\ ValueOf(val, prec) = One

\* C3: no call on a counter lowers its value: whatever is called on it
\* leaves val at least what it was (Set, Dec and Sub are not there to call,
\* and Add is guarded).
C3_CounterNeverLowered ==
    kind = "counter" => ZLeq(last.before, val)

\* C4: of two Value() calls on a counter that only has Add and Inc called on
\* it, the second called after the first returned, the second returns at
\* least what the first did.
C4_ObservationsNonDecreasing ==
    \A t \in 1..Readers :
        pc[t] \in {"loaded", "done"} => \A x \in lo[t] : QLeq(x, ret[t])

C4_LaterObservationGreater ==
    \E t \in 1..Readers :
        /\ pc[t] = "loaded"
        /\ \E x \in lo[t] : QLess(x, ret[t])

\* C5: after Add and Set calls only, on a gauge of precision p, Value() is
\* the exact result S of the calls cut off after p fractional digits:
\* trunc(S * 10^p) / 10^p.
C5_ValueIsTruncatedSum ==
    (kind = "gauge" /\ called # {} /\ called \subseteq {"Add", "Set"})
        => LET t == F64Trunc(QMulN(exact, prec))
           IN  ValueOf(val, prec) = F64FromRatio(t.neg, t.mag, Log10(prec), 0)

\* C6: in every state of a gauge, val / prec is less than 1 / prec away from
\* the exact result of the calls so far: |val - exact * prec| < 1.
C6_WithinOneUnit ==
    kind = "gauge"
        => QAbsBelowOne(QSub(QFromZ(val), QMulN(exact, prec)))

\* C7: after Set(v), val is n * prec for the integer n that v cut off toward
\* zero gives, whatever val was before; Set(0.5) at precision 3 leaves 0.
C7_SetTruncatesThenScales ==
    last.op = "Set"
        => LET d == NDivPow10(val.mag, Log10(prec))
           IN  /\ ~d[2]
               /\ IsTruncOf(ZMk(val.neg, d[1]), last.arg)
               /\ (last.arg = Half /\ prec = Scale3) => val = ZZero

C7_SetHalfOverOldValue ==
    /\ last.op = "Set"
    /\ last.arg = Half
    /\ prec = Scale3
    /\ last.before # ZZero
    /\ val = ZZero

\* C8: Add(delta) on a gauge raises val by the float64 product
\* delta * float64(prec) cut off toward zero: Inc then Add(42.3) at precision
\* 3 leaves 43300 and Value() 43.3, and at precision 0 val rises by the
\* integer part of delta.
C8_AddScalesThenTruncates ==
    last.op = "Add"
        => LET n == ZSub(val, last.before)
           IN  /\ IsTruncOf(n, F64Mul(last.arg, F64FromU64(prec)))
               /\ (prec = NOne) => IsTruncOf(n, last.arg)
               /\ (/\ prec = Scale3
                   /\ last.before = ZFromInt(1000)
                   /\ last.arg = FortyTwoPoint3)
                      => /\ val = ZFromInt(43300)
                         /\ ValueOf(val, prec) = FortyThreePoint3

C8_IncThenAdd ==
    /\ last.op = "Add"
    /\ called = {"Inc", "Add"}
    /\ last.arg = FortyTwoPoint3
    /\ prec = Scale3
    /\ val = ZFromInt(43300)

\* C9: Inc leaves the val that Add(1.0) would have left, and Dec the val
\* that Add(-1.0) would have, at every precision 0 .. 9.
C9_IncDecAsAdd ==
    /\ last.op = "Inc" => val = AddFloat(last.before, One, prec)
    /\ last.op = "Dec" => val = AddFloat(last.before, MinusOne, prec)

C9_DecAtHighestPrecision ==
    /\ last.op = "Dec"
    /\ prec = Scale9
    /\ last.before # ZZero
    /\ val # last.before

\* C10: Sub(v) leaves the val that Add(-v) would have left, lowering val by
\* v * float64(prec) cut off toward zero; Dec then Sub(42.3) at precision 3
\* leaves Value() at -43.3.
C10_SubAsAddOfNegation ==
    last.op = "Sub"
        => /\ val = AddFloat(last.before, F64Neg(last.arg), prec)
           /\ IsTruncOf(ZSub(last.before, val),
                        F64Mul(last.arg, F64FromU64(prec)))
           /\ (/\ prec = Scale3
               /\ last.before = ZFromInt(-1000)
               /\ last.arg = FortyTwoPoint3)
                  => ValueOf(val, prec) = MinusFortyThreePoint3

C10_DecThenSub ==
    /\ last.op = "Sub"
    /\ called = {"Dec", "Sub"}
    /\ last.arg = FortyTwoPoint3
    /\ prec = Scale3
    /\ ValueOf(val, prec) = MinusFortyThreePoint3

\* r is v / scale to within the rounding of one float64 operation:
\* |r * scale - v| <= 2^-53 * |v|
WithinRounding(r, v, scale) ==
    LET err == QAbs(QSub(QMulN(r, scale), QFromZ(v)))
    IN  QLeq([neg |-> FALSE, man |-> err.man, exp |-> err.exp + MantBits],
             QAbs(QFromZ(v)))

\* C11: Value and Write leave val as it was and report val / prec (to the
\* rounding of float64), both the same number for the same val.
C11_ReadsLeaveCell ==
    last.op \in {"Value", "Write"}
        => /\ val = last.before
           /\ last.result = ValueOf(val, prec)
           /\ WithinRounding(last.result, val, prec)

C11_WriteAfterAdd ==
    /\ last.op = "Write"
    /\ prec = Scale3
    /\ val = ZFromInt(42300)
    /\ last.result = FortyTwoPoint3

\* C13: after SetToCurrentTime at a precision 0 .. 9, Value() is less than 1
\* away from the Unix time the call read.
C13_CurrentTimeWithinOne ==
    (last.op = "SetToCurrentTime" /\ NLeq(prec, Scale9))
        => QAbsBelowOne(QSub(ValueOf(val, prec), last.arg))

C13_LastSecondAtHighestPrecision ==
    /\ last.op = "SetToCurrentTime"
    /\ prec = Scale9
    /\ val = ZMk(FALSE, NFromDigits(<<9,2,2,3,3,7,2,0,3,6,
                                       0,0,0,0,0,0,0,0,0>>))

\* a and b differ by a multiple of 2^64
Congruent64(a, b) == NMod64(ZSub(a, b).mag) = <<>>

\* C14: whatever a call computes, no panic follows and val is an int64 equal
\* modulo 2^64 to the exact result: trunc(v) * prec for Set, and val before
\* plus the term added for Inc, Dec and Add.
C14_OverflowWraps ==
    /\ ~last.panicked
    /\ InInt64Range(val)
    /\ last.op \in {"Set", "SetToCurrentTime"}
          => Congruent64(val, ZMul(F64Trunc(last.arg), ZMk(FALSE, prec)))
    /\ last.op = "Inc"
          => Congruent64(val, ZAdd(last.before, ZMk(FALSE, prec)))
    /\ last.op = "Dec"
          => Congruent64(val, ZSub(last.before, ZMk(FALSE, prec)))
    /\ last.op = "Add"
          => Congruent64(val, ZAdd(last.before,
                    F64Trunc(F64Mul(last.arg, F64FromU64(prec)))))

C14_IncPastTheTop ==
    /\ last.op = "Inc"
    /\ ~last.before.neg
    /\ ~InInt64Range(ZAdd(last.before, ZMk(FALSE, prec)))
    /\ val.neg

\* v is a whole multiple of scale
Multiple(v, scale) == ~NDivPow10(v.mag, Log10(scale))[2]

\* the float64 x is a whole number
Whole(x) == x.man = <<>> \/ x.exp >= 0

C18_ScaleFixed ==
    /\ val = ZZero
    /\ [](\E n \in 0..MaxPrec : prec = NPow10(n))
    /\ [][prec' = prec]_vars

C18_ScaleAfterRejectedAdd ==
    /\ last.op = "CounterAdd"
    /\ last.panicked
    /\ nops > 1
    /\ prec = Scale9

\* C19: Add(v) on a new gauge followed at once by Sub(v) leaves val at 0
\* again.
C19_AddThenSubRestores ==
    (/\ nops = 2
     /\ called = {"Add", "Sub"}
     /\ last.op = "Sub"
     /\ last.before = AddFloat(ZZero, last.arg, prec))
        => val = ZZero

C19_RestoredAtHighestPrecision ==
    /\ nops = 2
    /\ called = {"Add", "Sub"}
    /\ last.op = "Sub"
    /\ last.arg = FortyTwoPoint3
    /\ prec = Scale9
    /\ last.before = ZMk(FALSE, NFromDigits(<<4,2,3,0,0,0,0,0,0,0,0>>))
    /\ val = ZZero

AllReturned == \A t \in 1..Callers : pc[t] = "done"

\* C12: no call waits for another goroutine, so once the scheduler runs the
\* goroutines that are inside a call, every call entered returns.
C12_EveryCallCompletes ==
    \A t \in 1..Callers : (pc[t] = "called") ~> (pc[t] = "done")

\* one goroutine has returned while another is still inside its call
C12_ReturnedWhileOtherInside ==
    \E t, u \in 1..Callers : pc[t] = "done" /\ pc[u] = "called"

\* what the call c does to a cell holding cur when calls run one after
\* another: Set stores trunc(v) * prec, Add adds trunc(v * prec), Sub is
\* Add(-v), Inc and Dec are Add(1) and Add(-1)
SeqApply(c, cur) ==
    CASE c.op = "Set" -> StoreOfSet(c.arg, prec)
      [] c.op = "Add" -> AddFloat(cur, c.arg, prec)
      [] c.op = "Sub" -> AddFloat(cur, F64Neg(c.arg), prec)
      [] c.op = "Inc" -> AddFloat(cur, One, prec)
      [] c.op = "Dec" -> AddFloat(cur, MinusOne, prec)

\* the values the calls of the goroutines in S leave, run one after another
\* in every order, on a cell holding cur
RECURSIVE Outcomes(_, _)
Outcomes(S, cur) ==
    IF S = {} THEN {cur}
    ELSE UNION {Outcomes(S \ {t}, SeqApply(left[t], cur)) : t \in S}

\* C16: when every goroutine has returned, val is what their calls leave
\* when run one after another in some order; and what a concurrent Value()
\* returned is val / prec for the val that some of the calls already
\* entered leave, run in some order.
C16_SomeSequentialOrder ==
    /\ AllReturned => val \in Outcomes(1..Callers, ZZero)
    /\ ret # <<>> =>
          \E S \in SUBSET lo :
              \E x \in Outcomes(S, ZZero) : ret[1] = ValueOf(x, prec)

C16_SubThenSetObserved ==
    /\ AllReturned
    /\ left[1].op = "Set"
    /\ left[2].op = "Sub"
    /\ val = ZFromInt(42000)
    /\ ret = <<ValueOf(ZFromInt(-42300), prec)>>

\* C17: goroutines that each call Inc once if the Value() they read was
\* below 1 make exactly one Inc per reading below 1, none lost; so when
\* several read before any Inc, Value() ends above 1.
C17_OneIncPerPassedCheck ==
    AllReturned
        => val = ZMul(ZFromInt(Cardinality({t \in 1..Callers :
                                              QLess(ret[t], One)})),
                      ZMk(FALSE, prec))

C17_BothPassedAboveLimit ==
    /\ AllReturned
    /\ \A t \in 1..Callers : QLess(ret[t], One)
    /\ QLess(One, ValueOf(val, prec))

====
